---- MODULE Spec2Model ----
(***************************************************************************)
(* A model of the survex keyword analyzer (svx_keywords.py; the older      *)
(* survex_analyzer.py is the same walker without grep mode and with the    *)
(* warnings always on).                                                    *)
(*                                                                         *)
(* Python text (str) is modelled as a sequence of one-character strings,   *)
(* so that strip, split, upper, lower, join, expandtabs and with_suffix    *)
(* are computed character by character as Python computes them.            *)
(***************************************************************************)
EXTENDS Integers, Sequences, FiniteSets, TLC

----------------------------------------------------------------------------
(* Python values *)

\* None, as a text value: a one-element sequence whose element is no character.
None == <<"None">>

\* Python truthiness of an optional text: None and '' are false.
Truthy(s) == s # None /\ s # <<>>

----------------------------------------------------------------------------
(* str methods *)

LowerLetters ==
  <<"a","b","c","d","e","f","g","h","i","j","k","l","m",
    "n","o","p","q","r","s","t","u","v","w","x","y","z">>

UpperLetters ==
  <<"A","B","C","D","E","F","G","H","I","J","K","L","M",
    "N","O","P","Q","R","S","T","U","V","W","X","Y","Z">>

IndexIn(c, letters) ==
  IF \E i \in DOMAIN letters : letters[i] = c
  THEN CHOOSE i \in DOMAIN letters : letters[i] = c
  ELSE 0

\* the upper-case letter of each lower-case letter, and the converse
ToUpper == [c \in {LowerLetters[i] : i \in DOMAIN LowerLetters} |-> UpperLetters[IndexIn(c, LowerLetters)]]

ToLower == [c \in {UpperLetters[i] : i \in DOMAIN UpperLetters} |-> LowerLetters[IndexIn(c, UpperLetters)]]

UpperChar(c) == IF c \in DOMAIN ToUpper THEN ToUpper[c] ELSE c

LowerChar(c) == IF c \in DOMAIN ToLower THEN ToLower[c] ELSE c

\* str.upper()
Upper(s) == [i \in DOMAIN s |-> UpperChar(s[i])]

\* str.lower()
Lower(s) == [i \in DOMAIN s |-> LowerChar(s[i])]

\* the characters str.strip() and str.split() treat as white space
IsSpace(c) == c \in {" ", "\t", "\n"}

RECURSIVE LStrip(_)
LStrip(s) ==
  IF s # <<>> /\ IsSpace(Head(s)) THEN LStrip(Tail(s)) ELSE s

RECURSIVE RStrip(_)
RStrip(s) ==
  IF s # <<>> /\ IsSpace(s[Len(s)]) THEN RStrip(SubSeq(s, 1, Len(s) - 1)) ELSE s

\* str.strip()
Strip(s) == RStrip(LStrip(s))

\* c in s
Contains(s, c) == \E i \in DOMAIN s : s[i] = c

\* s.find(c) and s.rfind(c), 1-based, 0 when absent
Find(s, c) == IF Contains(s, c) THEN CHOOSE i \in DOMAIN s : s[i] = c /\ \A j \in 1..(i-1) : s[j] # c ELSE 0

RFind(s, c) == IF Contains(s, c) THEN CHOOSE i \in DOMAIN s : s[i] = c /\ \A j \in (i+1)..Len(s) : s[j] # c ELSE 0

\* s.split(c): the pieces between the occurrences of c (always at least one piece)
RECURSIVE SplitOn(_, _)
SplitOn(s, c) ==
  IF ~Contains(s, c) THEN <<s>>
  ELSE <<SubSeq(s, 1, Find(s, c) - 1)>> \o SplitOn(SubSeq(s, Find(s, c) + 1, Len(s)), c)

\* the first white-space-free run of s, which starts with a non-space
RECURSIVE FirstToken(_)
FirstToken(s) ==
  IF s = <<>> \/ IsSpace(Head(s)) THEN <<>> ELSE <<Head(s)>> \o FirstToken(Tail(s))

\* s.split(): the maximal runs of non-space characters
RECURSIVE SplitWS(_)
SplitWS(s) ==
  LET t == LStrip(s) IN
  IF t = <<>> THEN <<>>
  ELSE <<FirstToken(t)>> \o SplitWS(SubSeq(t, Len(FirstToken(t)) + 1, Len(t)))

\* sep.join(parts)
RECURSIVE Join(_, _)
Join(parts, sep) ==
  IF parts = <<>> THEN <<>>
  ELSE IF Len(parts) = 1 THEN parts[1]
  ELSE parts[1] \o sep \o Join(Tail(parts), sep)

\* s.strip(c) for a single character c
RECURSIVE StripChar(_, _)
StripChar(s, c) ==
  IF s # <<>> /\ Head(s) = c THEN StripChar(Tail(s), c)
  ELSE IF s # <<>> /\ s[Len(s)] = c THEN StripChar(SubSeq(s, 1, Len(s) - 1), c)
  ELSE s

\* s.replace(a, b) for single characters a and b
ReplaceChar(s, a, b) == [i \in DOMAIN s |-> IF s[i] = a THEN b ELSE s[i]]

\* str.expandtabs() pads to the next multiple of this column width
TabSize == 8

RECURSIVE Spaces(_)
Spaces(n) == IF n <= 0 THEN <<>> ELSE <<" ">> \o Spaces(n - 1)

RECURSIVE ExpandFrom(_, _)
ExpandFrom(s, col) ==
  IF s = <<>> THEN <<>>
  ELSE IF Head(s) = "\t"
       THEN Spaces(TabSize - (col % TabSize)) \o ExpandFrom(Tail(s), 0)
       ELSE <<Head(s)>> \o ExpandFrom(Tail(s), IF Head(s) = "\n" THEN 0 ELSE col + 1)

\* str.expandtabs()
ExpandTabs(s) == ExpandFrom(s, 0)

\* re.search of a literal pattern: the first position where pat occurs in s, 0 if none
Search(pat, s) ==
  LET hits == {i \in 1..(Len(s) - Len(pat) + 1) : SubSeq(s, i, i + Len(pat) - 1) = pat} IN
  IF hits = {} THEN 0 ELSE CHOOSE i \in hits : \A j \in hits : i <= j

----------------------------------------------------------------------------
(* pathlib.Path: a path is the sequence of its components, Path('.') is <<>> *)

Slash == "/"

Dot == "."

\* Path(text).parts: empty and '.' components are dropped, '..' is kept;
\* an absolute path keeps a leading "/" component
PathParts(text) ==
  LET pieces == SplitOn(text, Slash)
      kept   == SelectSeq(pieces, LAMBDA c : c # <<>> /\ c # <<Dot>>) IN
  IF text # <<>> /\ Head(text) = Slash THEN << <<Slash>> >> \o kept ELSE kept

IsAbsolute(parts) == parts # <<>> /\ parts[1] = <<Slash>>

\* Path(parent, filename): an absolute filename replaces the parent
PathJoin(parent, filename) ==
  IF IsAbsolute(PathParts(filename)) THEN PathParts(filename)
  ELSE parent \o PathParts(filename)

\* Path.parent
Parent(p) == IF p = <<>> THEN <<>> ELSE SubSeq(p, 1, Len(p) - 1)

\* Path.name
Name(p) == IF p = <<>> \/ p = << <<Slash>> >> THEN <<>> ELSE p[Len(p)]

\* Path.suffix of a name: from the last dot, unless that dot is first or last
Suffix(name) ==
  LET i == RFind(name, Dot) IN
  IF 1 < i /\ i < Len(name) THEN SubSeq(name, i, Len(name)) ELSE <<>>

\* the canonical suffix, '.svx'
SvxSuffix == <<".", "s", "v", "x">>

\* Path.with_suffix('.svx'): [exc, p]; a path with an empty name raises ValueError
with_suffix(p) ==
  LET name == Name(p)
      stem == SubSeq(name, 1, Len(name) - Len(Suffix(name))) IN
  IF name = <<>> THEN [exc |-> "ValueError", p |-> p]
  ELSE [exc |-> "", p |-> Parent(p) \o <<stem \o SvxSuffix>>]

\* str(path)
PathStr(p) ==
  IF p = <<>> THEN <<Dot>>
  ELSE IF IsAbsolute(p) THEN <<Slash>> \o Join(Tail(p), <<Slash>>)
  ELSE Join(p, <<Slash>>)

----------------------------------------------------------------------------
(* keywords *)

kwINCLUDE == <<"I","N","C","L","U","D","E">>

kwBEGIN == <<"B","E","G","I","N">>

kwEND == <<"E","N","D">>

kwFIX == <<"F","I","X">>

kwENTRANCE == <<"E","N","T","R","A","N","C","E">>

kwEQUATE == <<"E","Q","U","A","T","E">>

kwCS == <<"C","S">>

\* Analyzer.__init__: self.keywords
DefaultKeywords == {kwINCLUDE, kwBEGIN, kwEND, kwFIX, kwENTRANCE, kwEQUATE, kwCS}

\* the keywords keyword_table always recognizes
Structural == {kwINCLUDE, kwBEGIN, kwEND}

\* Analyzer.__init__: self.keyword_char and self.comment_char
keyword_char == "*"

comment_char == ";"

\* extract_keyword_arguments(clean, keywords, keyword_char):
\* [exc, keyword, arguments]; clean_list[0] of an empty list raises IndexError
extract_keyword_arguments(clean, keywords, kc) ==
  IF clean # <<>> /\ clean[1] = kc
  THEN LET clean_list == SplitWS(Tail(clean)) IN
       IF keywords = {} THEN [exc |-> "", keyword |-> None, arguments |-> <<>>]
       ELSE IF clean_list = <<>>
            THEN [exc |-> "IndexError", keyword |-> None, arguments |-> <<>>]
       ELSE IF Upper(clean_list[1]) \in keywords
            THEN [exc |-> "", keyword |-> clean_list[1], arguments |-> Tail(clean_list)]
       ELSE [exc |-> "", keyword |-> None, arguments |-> <<>>]
  ELSE [exc |-> "", keyword |-> None, arguments |-> <<>>]

----------------------------------------------------------------------------
(* files *)

\* A file system maps each existing path to [lines, decodes]: the file's lines
\* (each ends with a newline when read) and the encodings that decode its bytes.

encUTF8 == <<"u","t","f","-","8">>

encLATIN1 == <<"i","s","o","-","8","8","5","9","-","1">>

\* the options tried the other way round
Candidates_reversed == <<encLATIN1, encUTF8>>

\* svx_encoding: the list of options to try
Candidates == <<encUTF8, encLATIN1>>

\* svx_encoding, the loop from candidate i on: p.open raises FileNotFoundError
\* for a missing file; UnicodeDecodeError(msg) with one argument is a TypeError
RECURSIVE TryEncodings(_, _, _)
TryEncodings(files, p, i) ==
  IF p \notin DOMAIN files THEN [exc |-> "FileNotFoundError", encoding |-> <<>>]
  ELSE IF i > Len(Candidates) THEN [exc |-> "TypeError", encoding |-> Candidates[Len(Candidates)]]
  ELSE IF Candidates[i] \in files[p].decodes THEN [exc |-> "", encoding |-> Candidates[i]]
  ELSE TryEncodings(files, p, i + 1)

\* svx_encoding(p): [exc, encoding]
svx_encoding(files, p) == TryEncodings(files, p, 1)

----------------------------------------------------------------------------
(* keyword_table: the state of one call *)

\* A walker w is the record of keyword_table's local variables:
\*   pc            where the call stands: "call", "while_line" (the test of the
\*                 inner loop), "return", "done" or "raised"
\*   exc           the exception that ended the call, "" if none
\*   p, fp, line_number, encoding, line   the current file, its handle (0 is
\*                 None), the line counter, the encoding and the line last read
\*   stack         the frames of the including files, the sentinel first
\*   records       the accumulated tuples
\*   svx_path      the names of the open BEGIN blocks
\*   begin_line_number, begin_line   the last BEGIN seen (0 and None: unbound)
\*   out           what was printed
\*   handles       the file objects svx_open created: [p, pos, closed]
\*   df            the table returned, NoTable until the call returns
\*   nlines        history: the number of lines processed so far

NonePath == <<None>>

NoTable == <<"NoTable">>

Sentinel == [p |-> NonePath, fp |-> 0, line_number |-> 0, encoding |-> <<>>]

\* a raised exception ends the call
Raise(w, exc) == [w EXCEPT !.pc = "raised", !.exc = exc]

\* svx_open without the reset of the line counter
svx_open_keeps_count(w, files, trace) ==
  LET probe == svx_encoding(files, w.p) IN
  IF probe.exc # "" THEN Raise(w, probe.exc)
  ELSE [w EXCEPT !.handles = Append(@, [p |-> w.p, pos |-> 0, closed |-> FALSE]),
                 !.fp = Len(w.handles) + 1,
                 !.encoding = probe.encoding,
                 !.out = IF trace
                         THEN Append(@, [msg |-> "Entering", p |-> w.p, encoding |-> probe.encoding])
                         ELSE @]

\* svx_open(p, trace), with p already assigned: probe the encoding, open the
\* file and reset the line counter
svx_open(w, files, trace) ==
  LET probe == svx_encoding(files, w.p) IN
  IF probe.exc # "" THEN Raise(w, probe.exc)
  ELSE [w EXCEPT !.handles = Append(@, [p |-> w.p, pos |-> 0, closed |-> FALSE]),
                 !.fp = Len(w.handles) + 1,
                 !.line_number = 0,
                 !.encoding = probe.encoding,
                 !.out = IF trace
                         THEN Append(@, [msg |-> "Entering", p |-> w.p, encoding |-> probe.encoding])
                         ELSE @]

\* svx_readline(fp, line_number): the next line of the file ('' at its end)
\* and the counter plus one
svx_readline(w, files) ==
  LET h     == w.handles[w.fp]
      lines == files[h.p].lines IN
  IF h.pos < Len(lines)
  THEN [w EXCEPT !.line = lines[h.pos + 1] \o <<"\n">>,
                 !.line_number = @ + 1,
                 !.handles[w.fp].pos = h.pos + 1]
  ELSE [w EXCEPT !.line = <<>>, !.line_number = @ + 1]

----------------------------------------------------------------------------
(* keyword_table: the body of the loops *)

\* self is the Analyzer: [top_level, pattern, keywords]; a is the call's
\* arguments: [trace, warn, preserve_case].

\* keywords = self.keywords in place of the union
Recognized_reported_only(self) == self.keywords

\* keywords = self.keywords | {'INCLUDE', 'BEGIN', 'END'}
Recognized(self) == self.keywords \cup Structural

\* the record tuple built for the current line
Record(w, keyword, argument, line) ==
  [file |-> w.p, encoding |-> Upper(w.encoding), line |-> w.line_number,
   keyword |-> keyword, argument |-> argument,
   path |-> Join(w.svx_path, <<Dot>>), full |-> ExpandTabs(line)]

\* records.insert(0, record) in place of records.append(record)
AddRecord_in_front(w, r) ==
  [w EXCEPT !.records = <<r>> \o @]

\* records.append(record)
AddRecord(w, r) ==
  [w EXCEPT !.records = Append(@, r)]

\* a grep mode that passes over the lines that start with the keyword character
KT_Grep_skips_directives(w, self, line) ==
  IF self.pattern # None /\ Search(self.pattern, line) # 0
     /\ ~(line # <<>> /\ line[1] = keyword_char)
  THEN AddRecord(w, Record(w, self.pattern, <<>>, line))
  ELSE w

\* simple grep mode: a record for a line the pattern matches
\* (match.group() of a literal pattern is the pattern's text)
KT_Grep(w, self, line) ==
  IF self.pattern # None /\ Search(self.pattern, line) # 0
  THEN AddRecord(w, Record(w, self.pattern, <<>>, line))
  ELSE w

\* the report stage leaving INCLUDE statements out
KT_Report_without_include(w, self, a, line, keyword, arguments) ==
  IF Upper(keyword) \in self.keywords \ {kwINCLUDE}
  THEN AddRecord(w, Record(w, IF a.preserve_case THEN keyword ELSE Upper(keyword),
                           Join(arguments, <<" ">>), line))
  ELSE w

\* the report stage upper-casing the argument along with the keyword
KT_Report_cases_argument(w, self, a, line, keyword, arguments) ==
  IF Upper(keyword) \in self.keywords
  THEN AddRecord(w, Record(w, IF a.preserve_case THEN keyword ELSE Upper(keyword),
                           IF a.preserve_case THEN Join(arguments, <<" ">>)
                           ELSE Upper(Join(arguments, <<" ">>)), line))
  ELSE w

\* the record of a directive that is in self.keywords
KT_Report(w, self, a, line, keyword, arguments) ==
  IF Upper(keyword) \in self.keywords
  THEN AddRecord(w, Record(w, IF a.preserve_case THEN keyword ELSE Upper(keyword),
                           Join(arguments, <<" ">>), line))
  ELSE w

\* BEGIN without the warning of an empty statement
KT_Begin_silent(w, a, line, arguments) ==
  IF arguments # <<>>
  THEN [w EXCEPT !.svx_path = Append(@, Lower(arguments[1])),
                 !.begin_line_number = w.line_number,
                 !.begin_line = line]
  ELSE w

\* BEGIN keeping the case of the name
KT_Begin_keeps_case(w, a, line, arguments) ==
  IF arguments # <<>>
  THEN [w EXCEPT !.svx_path = Append(@, arguments[1]),
                 !.begin_line_number = w.line_number,
                 !.begin_line = line]
  ELSE IF a.warn
       THEN [w EXCEPT !.out = Append(@, [msg |-> "empty BEGIN statement",
                                         line_number |-> w.line_number, p |-> w.p])]
       ELSE w

\* a BEGIN statement that opens a block also when it has no name
KT_Begin_pushes_anonymous(w, a, line, arguments) ==
  IF arguments # <<>>
  THEN [w EXCEPT !.svx_path = Append(@, Lower(arguments[1])),
                 !.begin_line_number = w.line_number,
                 !.begin_line = line]
  ELSE [w EXCEPT !.svx_path = Append(@, <<>>),
                 !.out = IF a.warn
                         THEN Append(@, [msg |-> "empty BEGIN statement",
                                         line_number |-> w.line_number, p |-> w.p])
                         ELSE @]

\* process a BEGIN statement
KT_Begin(w, a, line, arguments) ==
  IF arguments # <<>>
  THEN [w EXCEPT !.svx_path = Append(@, Lower(arguments[1])),
                 !.begin_line_number = w.line_number,
                 !.begin_line = line]
  ELSE IF a.warn
       THEN [w EXCEPT !.out = Append(@, [msg |-> "empty BEGIN statement",
                                         line_number |-> w.line_number, p |-> w.p])]
       ELSE w

\* END popping the context stack only when the names agree
KT_End_pops_on_match(w, a, line, arguments) ==
  IF arguments # <<>>
  THEN IF w.svx_path = <<>> THEN Raise(w, "IndexError")
       ELSE IF Lower(arguments[1]) = w.svx_path[Len(w.svx_path)]
            THEN [w EXCEPT !.svx_path = SubSeq(@, 1, Len(@) - 1)]
            ELSE IF a.warn
                 THEN [w EXCEPT !.out =
                         Append(@, [msg |-> "mismatched BEGIN and END statements",
                                    begin_line_number |-> w.begin_line_number,
                                    begin_p |-> w.p, begin_line |-> w.begin_line,
                                    line_number |-> w.line_number,
                                    p |-> w.p, line |-> line])]
                 ELSE w
  ELSE IF a.warn
       THEN [w EXCEPT !.out = Append(@, [msg |-> "empty END statement",
                                         line_number |-> w.line_number, p |-> w.p])]
       ELSE w

\* END leaving the context stack as it is
KT_End_keeps_entry(w, a, line, arguments) ==
  IF arguments # <<>>
  THEN IF w.svx_path = <<>> THEN Raise(w, "IndexError") ELSE w
  ELSE IF a.warn
       THEN [w EXCEPT !.out = Append(@, [msg |-> "empty END statement",
                                         line_number |-> w.line_number, p |-> w.p])]
       ELSE w

\* process an END statement: svx_path.pop() of an empty list raises IndexError;
\* the three lines of the mismatch warning are one entry of out
KT_End(w, a, line, arguments) ==
  IF arguments # <<>>
  THEN IF w.svx_path = <<>> THEN Raise(w, "IndexError")
       ELSE LET end_path   == Lower(arguments[1])
                begin_path == w.svx_path[Len(w.svx_path)]
                popped     == [w EXCEPT !.svx_path = SubSeq(@, 1, Len(@) - 1)] IN
            IF a.warn /\ end_path # begin_path
            THEN IF w.begin_line = None THEN Raise(popped, "UnboundLocalError")
                 ELSE [popped EXCEPT !.out =
                         Append(@, [msg |-> "mismatched BEGIN and END statements",
                                    begin_line_number |-> w.begin_line_number,
                                    begin_p |-> w.p, begin_line |-> w.begin_line,
                                    line_number |-> w.line_number,
                                    p |-> w.p, line |-> line])]
            ELSE popped
  ELSE IF a.warn
       THEN [w EXCEPT !.out = Append(@, [msg |-> "empty END statement",
                                         line_number |-> w.line_number, p |-> w.p])]
       ELSE w

\* the file name of an INCLUDE: quotes removed, backslashes replaced
IncludeFilename(arguments) ==
  ReplaceChar(StripChar(Join(arguments, <<" ">>), "\""), "\\", Slash)

\* the new path without the directory of the including file: Path(filename)
IncludePath_without_parent(p, arguments) ==
  with_suffix(PathJoin(<<>>, IncludeFilename(arguments)))

\* the new path of an INCLUDE met in file p
IncludePath(p, arguments) == with_suffix(PathJoin(Parent(p), IncludeFilename(arguments)))

\* INCLUDE passing over a file that does not exist
KT_Include_skips_missing(w, files, a, arguments) ==
  LET pushed == [w EXCEPT !.stack = Append(@, [p |-> w.p, fp |-> w.fp,
                                               line_number |-> w.line_number,
                                               encoding |-> w.encoding])]
      target == IncludePath(w.p, arguments) IN
  IF target.exc # "" THEN Raise(pushed, target.exc)
  ELSE IF target.p \notin DOMAIN files THEN w
  ELSE svx_open([pushed EXCEPT !.p = target.p], files, a.trace)

\* an INCLUDE that does not enter a file that is being read already
KT_Include_detects_cycle(w, files, a, arguments) ==
  LET pushed == [w EXCEPT !.stack = Append(@, [p |-> w.p, fp |-> w.fp,
                                               line_number |-> w.line_number,
                                               encoding |-> w.encoding])]
      target == IncludePath(w.p, arguments) IN
  IF target.exc # "" THEN Raise(pushed, target.exc)
  ELSE IF target.p = w.p \/ \E i \in DOMAIN w.stack : w.stack[i].p = target.p THEN w
  ELSE svx_open([pushed EXCEPT !.p = target.p], files, a.trace)

\* process an INCLUDE statement: push the frame, open the new file
KT_Include(w, files, a, arguments) ==
  LET pushed == [w EXCEPT !.stack = Append(@, [p |-> w.p, fp |-> w.fp,
                                               line_number |-> w.line_number,
                                               encoding |-> w.encoding])]
      target == IncludePath(w.p, arguments) IN
  IF target.exc # "" THEN Raise(pushed, target.exc)
  ELSE svx_open([pushed EXCEPT !.p = target.p], files, a.trace)

\* clean that leaves the comment in
Clean_keeps_comment(line) == line

\* clean: the stripped line without its comment
Clean(line) ==
  IF Contains(line, comment_char) THEN Strip(SplitOn(line, comment_char)[1]) ELSE line

\* the directive stages of one line, for an extracted keyword
KT_Directive(w, files, self, a, line, keyword, arguments) ==
  LET uc_keyword == Upper(keyword)
      w1 == KT_Report(w, self, a, line, keyword, arguments)
      w2 == IF uc_keyword = kwBEGIN THEN KT_Begin(w1, a, line, arguments) ELSE w1
      w3 == IF uc_keyword = kwEND THEN KT_End(w2, a, line, arguments) ELSE w2 IN
  IF w3.pc = "raised" THEN w3
  ELSE IF uc_keyword = kwINCLUDE THEN KT_Include(w3, files, a, arguments)
  ELSE w3

\* one pass of the inner loop: the line in w.line, then the next readline
KT_Line(w, files, self, a) ==
  LET line == Strip(w.line)
      w0   == KT_Grep([w EXCEPT !.nlines = @ + 1], self, line)
      ka   == extract_keyword_arguments(Clean(line), Recognized(self), keyword_char)
      w1   == IF ka.exc # "" THEN Raise(w0, ka.exc)
              ELSE IF Truthy(ka.keyword)
                   THEN KT_Directive(w0, files, self, a, line, ka.keyword, ka.arguments)
                   ELSE w0 IN
  IF w1.pc = "raised" THEN w1 ELSE svx_readline(w1, files)

\* the end of the current file without fp.close()
KT_EndOfFile_leaves_open(w, files) ==
  IF w.stack = <<>> THEN Raise(w, "IndexError")
  ELSE LET frame  == w.stack[Len(w.stack)]
           popped == [w EXCEPT !.stack = SubSeq(@, 1, Len(@) - 1),
                               !.p = frame.p, !.fp = frame.fp,
                               !.line_number = frame.line_number,
                               !.encoding = frame.encoding] IN
       IF frame.fp # 0 THEN svx_readline(popped, files)
       ELSE [popped EXCEPT !.pc = "return"]

\* the end of the current file with the context stack emptied on the way back
KT_EndOfFile_resets_context(w, files) ==
  IF w.stack = <<>> THEN Raise(w, "IndexError")
  ELSE LET frame  == w.stack[Len(w.stack)]
           popped == [w EXCEPT !.handles[w.fp].closed = TRUE,
                               !.stack = SubSeq(@, 1, Len(@) - 1),
                               !.p = frame.p, !.fp = frame.fp,
                               !.line_number = frame.line_number,
                               !.encoding = frame.encoding,
                               !.svx_path = <<>>] IN
       IF frame.fp # 0 THEN svx_readline(popped, files)
       ELSE [popped EXCEPT !.pc = "return"]

\* the end of the current file: close it and go back to the including file;
\* the outer loop reads on unless the sentinel was popped
KT_EndOfFile(w, files) ==
  IF w.stack = <<>> THEN Raise(w, "IndexError")
  ELSE LET frame  == w.stack[Len(w.stack)]
           popped == [w EXCEPT !.handles[w.fp].closed = TRUE,
                               !.stack = SubSeq(@, 1, Len(@) - 1),
                               !.p = frame.p, !.fp = frame.fp,
                               !.line_number = frame.line_number,
                               !.encoding = frame.encoding] IN
       IF frame.fp # 0 THEN svx_readline(popped, files)
       ELSE [popped EXCEPT !.pc = "return"]

\* pd.DataFrame(records, columns=schema).astype(schema): the file column as str
DataFrame(records) ==
  [i \in DOMAIN records |-> [records[i] EXCEPT !.file = PathStr(@)]]

\* return the table
KT_Return(w) == [w EXCEPT !.pc = "done", !.df = DataFrame(w.records)]

\* the walker before keyword_table is called
Idle ==
  [pc |-> "call", exc |-> "", p |-> NonePath, fp |-> 0, line_number |-> 0,
   encoding |-> <<>>, line |-> <<>>, stack |-> <<>>, records |-> <<>>,
   svx_path |-> <<>>, begin_line_number |-> 0, begin_line |-> None,
   out |-> <<>>, handles |-> <<>>, df |-> NoTable, nlines |-> 0]

\* the start of keyword_table: the sentinel, the top level file, its first line
KT_Call(w, files, self, a) ==
  LET opened == svx_open([w EXCEPT !.stack = <<Sentinel>>, !.p = self.top_level],
                         files, a.trace) IN
  IF opened.pc = "raised" THEN opened
  ELSE svx_readline([opened EXCEPT !.pc = "while_line"], files)

\* whatever the call does next (nothing once it has returned or raised)
KT_Step(w, files, self, a) ==
  CASE w.pc = "call" -> KT_Call(w, files, self, a)
    [] w.pc = "while_line" /\ w.line # <<>> -> KT_Line(w, files, self, a)
    [] w.pc = "while_line" /\ w.line = <<>> -> KT_EndOfFile(w, files)
    [] w.pc = "return" -> KT_Return(w)
    [] OTHER -> w

----------------------------------------------------------------------------
(* stringify *)

DecimalDigits == <<"0","1","2","3","4","5","6","7","8","9">>

\* str(n) of a non-negative int, as an f-string formats it
RECURSIVE IntToStr(_)
IntToStr(n) ==
  IF n < 10 THEN <<DecimalDigits[n + 1]>>
  ELSE IntToStr(n \div 10) \o <<DecimalDigits[(n % 10) + 1]>>

Colon == ":"

\* a rendering with the context path in front of the line number
stringify_path_first(df, paths) ==
  [i \in DOMAIN df |->
     IF paths
     THEN df[i].file \o <<Colon>> \o df[i].path \o <<Colon>> \o IntToStr(df[i].line)
            \o <<Colon>> \o df[i].full
     ELSE df[i].file \o <<Colon>> \o IntToStr(df[i].line) \o <<Colon>> \o df[i].full]

\* stringify(df, color=False, paths): one string per row of the table
stringify(df, paths) ==
  [i \in DOMAIN df |->
     IF paths
     THEN df[i].file \o <<Colon>> \o IntToStr(df[i].line) \o <<Colon>> \o df[i].path
            \o <<Colon>> \o df[i].full
     ELSE df[i].file \o <<Colon>> \o IntToStr(df[i].line) \o <<Colon>> \o df[i].full]

----------------------------------------------------------------------------
(* the command-line wrapper *)

\* what the process prints for a table, run without --totals, --summarize,
\* --output and --color: the rendered rows of a table that has any (the
\* summary line printed for an empty table is left out)
MainPrint(w, paths) ==
  IF w.pc = "done" /\ Len(w.df) # 0 THEN stringify(w.df, paths) ELSE <<>>

\* an exit status that reproduces grep's whatever the mode
MainExit_empty_table(w, self) ==
  IF w.pc = "raised" THEN 1
  ELSE IF Len(w.df) = 0 THEN 1
  ELSE 0

\* the exit status of the process: an uncaught exception ends it with 1;
\* in grep mode an empty table ends it with sys.exit(1)
MainExit(w, self) ==
  IF w.pc = "raised" THEN 1
  ELSE IF Len(w.df) = 0 /\ self.pattern # None THEN 1
  ELSE 0

----------------------------------------------------------------------------
(* inputs: survex source lines, files and trees *)

\* '*' + keyword [+ ' ' + argument]
Directive(keyword, argument) ==
  <<keyword_char>> \o keyword \o (IF argument = <<>> THEN <<>> ELSE <<" ">> \o argument)

lnBeginA == Directive(Lower(kwBEGIN), <<"a">>)

lnBeginB == Directive(kwBEGIN, <<"B">>)

lnEndA == Directive(Lower(kwEND), <<"a">>)

lnEndB == Directive(<<"E","n","d">>, <<"B">>)

lnBegin == Directive(Lower(kwBEGIN), <<>>)

lnEnd == Directive(Lower(kwEND), <<>>)

lnFix == <<"\t">> \o Directive(Lower(kwFIX), <<"P","1">>) \o <<" ",";","x">>

lnData == <<"1"," ","2">>

lnIncludeB == Directive(Lower(kwINCLUDE), <<"B">>)

lnIncludeC == Directive(kwINCLUDE, <<"\"","C",".","s","v","x","\"">>)

lnIncludeD == Directive(Lower(kwINCLUDE), <<"D">>)

lnIncludeA == Directive(Lower(kwINCLUDE), <<"A">>)

pathA == << <<"A">> \o SvxSuffix >>

pathB == << <<"B">> \o SvxSuffix >>

pathC == << <<"C">> \o SvxSuffix >>

\* lines and paths of trees with a subdirectory and with unusual names
lnIncludeSubB == Directive(Lower(kwINCLUDE), <<"s","u","b","/","B">>)

lnIncludeSubC == Directive(Lower(kwINCLUDE), <<"s","u","b","\\","C">>)

lnIncludeColon == Directive(Lower(kwINCLUDE), <<"x",":","7",":","y">>)

lnStar == <<keyword_char>>

lnStarComment == <<keyword_char, " ", comment_char, "c">>

\* INCLUDE arguments with the canonical suffix and with a dot in the name
lnIncludeBSvx == Directive(Lower(kwINCLUDE), <<"B">> \o SvxSuffix)

lnIncludeDotted == Directive(Lower(kwINCLUDE), <<"c","a","v","e",".","2","0","1","9">>)

pathCave == << <<"c","a","v","e">> \o SvxSuffix >>

pathCaveDotted == << <<"c","a","v","e",".","2","0","1","9">> \o SvxSuffix >>

\* directives that appear only after the comment character
lnCommentInclude == <<comment_char, " ">> \o lnIncludeB

lnCommentBegin == <<comment_char>> \o Directive(Lower(kwBEGIN), <<"x">>)

lnCommentFix == <<comment_char>> \o Directive(Lower(kwFIX), <<"P","1">>)

\* directives followed by a comment that reads like more arguments
lnIncludeBComment == lnIncludeB \o <<" ", comment_char, " ", "C">>

lnBeginAComment == lnBeginA \o <<" ", comment_char, "b">>

pathSubB == << <<"s","u","b">>, <<"B">> \o SvxSuffix >>

pathSubC == << <<"s","u","b">>, <<"C">> \o SvxSuffix >>

pathColon == << <<"x",":","7",":","y">> \o SvxSuffix >>

\* the sequences over S of length at most n
SeqsUpTo(S, n) == UNION {[1..k -> S] : k \in 0..n}

\* a file whose bytes are valid UTF-8, and one that only ISO-8859-1 decodes
FileUTF8(lines) == [lines |-> lines, decodes |-> {encUTF8, encLATIN1}]

FileLatin1(lines) == [lines |-> lines, decodes |-> {encLATIN1}]

----------------------------------------------------------------------------
(* the state machine *)

VARIABLES
  fs,           \* the file system: the survex tree on disk
  analyzer,     \* the Analyzer object: [top_level, pattern, keywords]
  args,         \* keyword_table's arguments: [trace, warn, preserve_case]
  run,          \* the call of keyword_table
  ref,          \* the same call on an Analyzer whose keywords also hold
                \* INCLUDE, BEGIN and END, advanced in step with run
  exit_status,  \* the exit status of the process, -1 while it runs
  printed       \* the lines the process printed for the table

vars == <<fs, analyzer, args, run, ref, exit_status, printed>>

\* the Analyzer of the comparison call
WithStructural(self) == [self EXCEPT !.keywords = @ \cup Structural]

\* bounds of the model: the lines of the top level file, the depth of the
\* frame stack beyond which the model does not follow a cyclic tree
MaxLines == 3

MaxDepth == 3

\* the lines the top level file A.svx may hold
TopLines == {lnBeginA, lnEndA, lnEndB, lnEnd, lnFix, lnIncludeB}

\* the contents B.svx may have (it is read under ISO-8859-1) ...
FilesB ==
  { <<lnFix>>, <<lnBeginB, lnFix, lnEndB>>, <<lnEndA, lnData>>, <<lnBeginB>>,
    <<lnBegin, lnIncludeD>>, <<lnIncludeB>>, <<lnBegin, lnFix, lnEnd>> }

\* ... those of B.svx that include C.svx, and the contents of C.svx
FilesBC == { <<lnIncludeC, lnFix>>, <<lnBeginB, lnIncludeC, lnEndA>> }

FilesC == { <<lnData, lnFix>>, <<lnEndB, lnBeginA>> }

Includes(lines, ln) == \E i \in DOMAIN lines : lines[i] = ln

\* the trees: a file that nothing includes is left out
Trees ==
  LET tops == SeqsUpTo(TopLines, MaxLines) IN
  { (pathA :> FileUTF8(a)) : a \in {t \in tops : ~Includes(t, lnIncludeB)} }
  \cup { (pathA :> FileUTF8(a)) @@ (pathB :> FileLatin1(b)) :
           a \in {t \in tops : Includes(t, lnIncludeB)}, b \in FilesB }
  \cup { (pathA :> FileUTF8(a)) @@ (pathB :> FileLatin1(b)) @@ (pathC :> FileUTF8(c)) :
           a \in {t \in tops : Includes(t, lnIncludeB)}, b \in FilesBC, c \in FilesC }

\* the reporting sets and patterns the wrapper sets up
KeywordSets == {DefaultKeywords, {kwFIX}}

Patterns == {<<"P","1">>}

Analyzers ==
  { [top_level |-> pathA, pattern |-> None, keywords |-> k] : k \in KeywordSets }
  \cup { [top_level |-> pathA, pattern |-> pat, keywords |-> {}] : pat \in Patterns }

\* keyword_table's arguments (the trace notifications are left off)
Arguments == [trace : {FALSE}, warn : BOOLEAN, preserve_case : BOOLEAN]

\* the calls made: the options are varied with the default reporting set
Configurations ==
  {c \in Analyzers \X Arguments :
     c[1].keywords = DefaultKeywords \/ (~c[2].warn /\ ~c[2].preserve_case)}

\* the calls compared with their comparison call: also the empty reporting
\* set without a pattern
AnalyzersPair ==
  Analyzers \cup {[top_level |-> pathA, pattern |-> None, keywords |-> {}]}

ConfigurationsPair ==
  {c \in AnalyzersPair \X Arguments : ~c[2].warn /\ (c[2].preserve_case <=> c[1].keywords = {kwFIX})}

\* a walker that never runs
Off == [Idle EXCEPT !.pc = "off"]

\* the state after the Analyzer is constructed
Start(configurations) ==
  /\ fs \in Trees
  /\ \E c \in configurations : analyzer = c[1] /\ args = c[2]
  /\ run = Idle
  /\ exit_status = -1
  /\ printed = <<>>

\* trees with a subdirectory: A.svx may include sub/B.svx (which may include
\* C.svx, that is sub/C.svx), sub/C.svx and x:7:y.svx; a C.svx beside A.svx
\* is there as well; lines with the keyword character alone
TopLinesWide == {lnFix, lnIncludeSubB, lnIncludeSubC, lnIncludeColon, lnStar, lnStarComment}

FilesSubB == { <<lnIncludeC, lnFix>>, <<lnBeginB, lnFix>> }

\* a file whose directive is on a line with a number of two digits
FileSubC == [i \in 1..11 |-> IF i = 11 THEN lnFix ELSE lnData]

TreesWide ==
  { (pathA :> FileUTF8(a)) @@ (pathC :> FileUTF8(<<lnData>>))
      @@ (pathSubB :> FileLatin1(b)) @@ (pathSubC :> FileUTF8(FileSubC))
      @@ (pathColon :> FileUTF8(<<lnFix, lnData>>)) :
      a \in SeqsUpTo(TopLinesWide, MaxLines), b \in FilesSubB }

ConfigurationsWide ==
  {c \in Analyzers \X Arguments :
     /\ c[1].keywords # {kwFIX} /\ ~c[2].warn
     /\ c[2].preserve_case <=> c[1].pattern # None}

\* trees with and without a cycle: A.svx may include B.svx and itself,
\* B.svx may include itself and A.svx
TopLinesCycle == {lnFix, lnEndA, lnIncludeB, lnIncludeA}

FilesBCycle ==
  { <<lnFix>>, <<lnIncludeB>>, <<lnFix, lnIncludeA>>, <<lnBeginB, lnIncludeA, lnEndB>>,
    <<lnEndA, lnIncludeA>>, <<>> }

TreesCycle ==
  { (pathA :> FileUTF8(a)) @@ (pathB :> FileLatin1(b)) :
      a \in SeqsUpTo(TopLinesCycle, MaxLines), b \in FilesBCycle }

ConfigurationsCycle ==
  {c \in Analyzers \X Arguments :
     c[1].keywords = DefaultKeywords /\ ~c[2].warn /\ ~c[2].preserve_case}

\* trees with comments: directives behind the comment character, and
\* directives followed by a comment
TopLinesComment ==
  {lnCommentInclude, lnCommentBegin, lnCommentFix, lnIncludeBComment, lnBeginAComment, lnEndA}

FilesBComment == { <<lnFix>>, <<lnCommentBegin, lnEndA>> }

TreesComment ==
  { (pathA :> FileUTF8(a)) @@ (pathB :> FileLatin1(b)) :
      a \in SeqsUpTo(TopLinesComment, MaxLines), b \in FilesBComment }

ConfigurationsComment ==
  {c \in Analyzers \X Arguments :
     c[1].keywords # {kwFIX} /\ ~c[2].preserve_case /\ (c[2].warn => c[1].pattern = None)}

\* trees whose INCLUDE lines name B, B.svx and cave.2019: cave.2019.svx
\* exists, with or without a cave.svx beside it
TopLinesSuffix == {lnFix, lnIncludeB, lnIncludeBSvx, lnIncludeDotted}

TreesSuffix ==
  { (pathA :> FileUTF8(a)) @@ (pathB :> FileLatin1(<<lnFix>>))
      @@ (pathCaveDotted :> FileUTF8(<<lnFix, lnData>>)) @@ other :
      a \in SeqsUpTo(TopLinesSuffix, MaxLines),
      other \in {<<>>, (pathCave :> FileUTF8(<<lnData>>))} }

\* grep mode with a pattern found in BEGIN, END and INCLUDE lines as well
PatternsGrep == Patterns \cup {<<"e">>}

AnalyzersGrep ==
  { [top_level |-> pathA, pattern |-> pat, keywords |-> {}] : pat \in PatternsGrep }

ConfigurationsGrep ==
  {c \in AnalyzersGrep \X Arguments : ~c[2].warn}

Init == Start(Configurations) /\ ref = Off

InitGrep == Start(ConfigurationsGrep) /\ ref = Off

InitPair == Start(ConfigurationsPair) /\ ref = Idle

InitWide ==
  /\ fs \in TreesWide
  /\ \E c \in ConfigurationsWide : analyzer = c[1] /\ args = c[2]
  /\ run = Idle
  /\ ref = Off
  /\ exit_status = -1
  /\ printed = <<>>

InitCycle ==
  /\ fs \in TreesCycle
  /\ \E c \in ConfigurationsCycle : analyzer = c[1] /\ args = c[2]
  /\ run = Idle
  /\ ref = Off
  /\ exit_status = -1
  /\ printed = <<>>

InitComment ==
  /\ fs \in TreesComment
  /\ \E c \in ConfigurationsComment : analyzer = c[1] /\ args = c[2]
  /\ run = Idle
  /\ ref = Off
  /\ exit_status = -1
  /\ printed = <<>>

InitSuffix ==
  /\ fs \in TreesSuffix
  /\ \E c \in ConfigurationsCycle : analyzer = c[1] /\ args = c[2]
  /\ run = Idle
  /\ ref = Off
  /\ exit_status = -1
  /\ printed = <<>>

Advance(w) ==
  /\ run' = w
  /\ ref' = KT_Step(ref, fs, WithStructural(analyzer), args)
  /\ UNCHANGED <<fs, analyzer, args, exit_status, printed>>

\* df = analyzer.keyword_table(...): the call starts
Call ==
  /\ run.pc = "call"
  /\ Advance(KT_Call(run, fs, analyzer, args))

\* one line of the current file is processed
Line ==
  /\ run.pc = "while_line"
  /\ run.line # <<>>
  /\ Len(run.stack) <= MaxDepth
  /\ Advance(KT_Line(run, fs, analyzer, args))

\* the current file is exhausted
EndOfFile ==
  /\ run.pc = "while_line"
  /\ run.line = <<>>
  /\ Advance(KT_EndOfFile(run, fs))

\* the table is returned
Return ==
  /\ run.pc = "return"
  /\ Advance(KT_Return(run))

\* the process prints the table, with or without --paths, and ends
Exit ==
  /\ run.pc \in {"done", "raised"}
  /\ exit_status = -1
  /\ \E paths \in BOOLEAN : printed' = MainPrint(run, paths)
  /\ exit_status' = MainExit(run, analyzer)
  /\ UNCHANGED <<fs, analyzer, args, run, ref>>

Next == Call \/ Line \/ EndOfFile \/ Return \/ Exit

Spec == Init /\ [][Next]_vars

\* the call together with the comparison call
SpecPair == InitPair /\ [][Next]_vars

\* the call on the trees with a subdirectory
SpecWide == InitWide /\ [][Next]_vars

\* the call on the trees with cycles
SpecCycle == InitCycle /\ [][Next]_vars

\* the call on the trees with comments
SpecComment == InitComment /\ [][Next]_vars

\* the call in grep mode
SpecGrep == InitGrep /\ [][Next]_vars

\* the call on the trees with dotted names
SpecSuffix == InitSuffix /\ [][Next]_vars

----------------------------------------------------------------------------
(* what the claims are stated against: the tree read depth first *)

\* every line and every path of the trees
AllLines ==
  {lnBeginA, lnBeginB, lnEndA, lnEndB, lnBegin, lnEnd, lnFix, lnData,
   lnIncludeB, lnIncludeC, lnIncludeD, lnIncludeA,
   lnIncludeSubB, lnIncludeSubC, lnIncludeColon, lnStar, lnStarComment,
   lnCommentInclude, lnCommentBegin, lnCommentFix, lnIncludeBComment, lnBeginAComment,
   lnIncludeBSvx, lnIncludeDotted}

AllPaths == {pathA, pathB, pathC, pathSubB, pathSubC, pathColon, pathCave, pathCaveDotted}

\* What a line l of file p is for an Analyzer, read independently of any
\* call: text is the stripped line, kw the upper-cased keyword (None when
\* the line is no recognized directive), args its arguments, token the word
\* that follows the keyword character as written, target the file an
\* INCLUDE names, match whether the pattern is found in the line.
LineEvents ==
  [p \in AllPaths, l \in AllLines, self \in AnalyzersPair \cup AnalyzersGrep |->
     LET text == Strip(l)
         ka   == extract_keyword_arguments(Clean(text), Recognized(self), keyword_char)
         kw   == IF Truthy(ka.keyword) THEN Upper(ka.keyword) ELSE None IN
     [text |-> text, kw |-> kw, args |-> ka.arguments,
      token |-> IF text # <<>> /\ text[1] = keyword_char THEN FirstToken(Tail(text)) ELSE <<>>,
      target |-> IF kw = kwINCLUDE THEN IncludePath(p, ka.arguments)
                 ELSE [exc |-> "no include", p |-> p],
      match |-> self.pattern # None /\ Search(self.pattern, text) # 0]]

\* the event of line i of file p
EventOf(files, p, i) ==
  LET d == LineEvents[p, files[p].lines[i], analyzer] IN
  [file |-> p, line |-> i, text |-> d.text, kw |-> d.kw, args |-> d.args,
   token |-> d.token, target |-> d.target, match |-> d.match]

\* The first n lines of the tree in depth-first pre-order, from line i of
\* file p on: a line, then (for an INCLUDE of an existing file) the whole of
\* the included file, then the lines after it. left is what remains of n.
RECURSIVE Preorder(_, _, _, _)
Preorder(files, p, i, n) ==
  IF n = 0 \/ i > Len(files[p].lines) THEN [ev |-> <<>>, left |-> n]
  ELSE LET e      == EventOf(files, p, i)
           target == e.target
           sub    == IF target.exc = "" /\ target.p \in DOMAIN files
                     THEN Preorder(files, target.p, 1, n - 1)
                     ELSE [ev |-> <<>>, left |-> n - 1]
           rest   == Preorder(files, p, i + 1, sub.left) IN
       [ev |-> <<e>> \o sub.ev \o rest.ev, left |-> rest.left]

\* the lines the call has processed so far, and the line it would process next
Processed == Preorder(fs, analyzer.top_level, 1, run.nlines).ev

Upcoming == Preorder(fs, analyzer.top_level, 1, run.nlines + 1)

\* the (file, line) positions of a list of records
Positions(records) == [i \in DOMAIN records |-> <<records[i].file, records[i].line>>]

\* a line yields a row when the pattern matches it, and then a row when it
\* is a directive of the reporting set
Matches(e) == e.match

Reported(e) == e.kw # None /\ e.kw \in analyzer.keywords

\* for each expected row, in order, the number of the event it comes from
\* and whether it is the row of a pattern match
RECURSIVE ExpectedRows(_, _)
ExpectedRows(events, k) ==
  IF k > Len(events) THEN <<>>
  ELSE (IF Matches(events[k]) THEN <<[at |-> k, grep |-> TRUE]>> ELSE <<>>)
       \o (IF Reported(events[k]) THEN <<[at |-> k, grep |-> FALSE]>> ELSE <<>>)
       \o ExpectedRows(events, k + 1)

ExpectedPositions(events) ==
  LET rows == ExpectedRows(events, 1) IN
  [i \in DOMAIN rows |-> <<events[rows[i].at].file, events[rows[i].at].line>>]

\* more lines than any tree without a cycle has
TreeFuel == MaxLines * 6 + 2

\* the whole tree in depth-first order (left = 0: the listing does not end)
Whole == Preorder(fs, analyzer.top_level, 1, TreeFuel)

NoBlocks == [open |-> <<>>, ok |-> TRUE, anomalies |-> <<>>]

\* The BEGIN blocks open after events k..n, from st on: a named BEGIN opens
\* a block, a named END closes the innermost one. ok is lost at an unnamed
\* BEGIN or END, at an END whose name (lower-cased) is not that of the block
\* it closes, and at an END with no block open; the first three are listed in
\* anomalies with the number of their event.
RECURSIVE Blocks(_, _, _, _)
Blocks(events, k, n, st) ==
  IF k > n THEN st
  ELSE LET e == events[k]
           next ==
             IF e.kw = kwBEGIN
             THEN IF e.args # <<>>
                  THEN [st EXCEPT !.open = Append(@, [name |-> Lower(e.args[1]), at |-> k])]
                  ELSE [st EXCEPT !.ok = FALSE,
                                  !.anomalies = Append(@, [kind |-> "empty BEGIN", at |-> k])]
             ELSE IF e.kw = kwEND
             THEN IF e.args = <<>>
                  THEN [st EXCEPT !.ok = FALSE,
                                  !.anomalies = Append(@, [kind |-> "empty END", at |-> k])]
                  ELSE IF st.open = <<>> THEN [st EXCEPT !.ok = FALSE]
                  ELSE LET top == st.open[Len(st.open)] IN
                       IF top.name = Lower(e.args[1])
                       THEN [st EXCEPT !.open = SubSeq(@, 1, Len(@) - 1)]
                       ELSE [st EXCEPT !.open = SubSeq(@, 1, Len(@) - 1), !.ok = FALSE,
                                       !.anomalies = Append(@, [kind |-> "mismatch", at |-> k,
                                                                begin |-> top.at])]
             ELSE st IN
       Blocks(events, k + 1, n, next)

\* the blocks open after the first n of the events
BlocksAfter(events, n) == Blocks(events, 1, n, NoBlocks)

\* the names of a list of open blocks, and their dot-joined path
Names(open) == [i \in DOMAIN open |-> open[i].name]

\* every BEGIN has a name and is closed by an END of the same name, properly
\* nested, in a tree whose traversal ends
WellFormedTree ==
  LET whole == Whole
      b     == BlocksAfter(whole.ev, Len(whole.ev)) IN
  whole.left > 0 /\ b.ok /\ b.open = <<>>

\* how many of the first n events have keyword kw
CountKw(events, kw) == Cardinality({k \in DOMAIN events : events[k].kw = kw})

----------------------------------------------------------------------------
(* C1 *)

\* the row of a pattern match: its keyword column is the matched text
IsMatchRow(r) == analyzer.pattern # None /\ r.keyword = analyzer.pattern

\* the rows of the comparison table whose upper-cased keyword is in K
FilteredByKeyword(records) ==
  LET InK(r) == Upper(r.keyword) \in analyzer.keywords IN SelectSeq(records, InK)

\* ... and those rows together with the rows of pattern matches
FilteredDirectives(records) ==
  LET Kept(r) == IsMatchRow(r) \/ Upper(r.keyword) \in analyzer.keywords IN
  SelectSeq(records, Kept)

\* the call and the comparison call are at the same position with the same
\* context and the same frames
SameTraversal ==
  /\ run.pc = ref.pc /\ run.exc = ref.exc
  /\ run.p = ref.p /\ run.line_number = ref.line_number /\ run.line = ref.line
  /\ run.svx_path = ref.svx_path /\ run.stack = ref.stack
  /\ run.handles = ref.handles /\ run.nlines = ref.nlines

\* C1 (as amended): for every tree and every reporting set K, the call for K
\* is at every step at the same (file, line) position with the same context
\* stack and include stack as the call for K with INCLUDE, BEGIN and END
\* added, and its records (and the table returned) are those of the other
\* call without the directive rows whose upper-cased keyword is not in K,
\* in the same order; the rows of pattern matches are kept.
C1_ReportingDecoupled ==
  /\ SameTraversal
  /\ run.records = FilteredDirectives(ref.records)
  /\ run.pc = "done" => run.df = FilteredDirectives(ref.df)

\* C1 as stated: the table for K is the other table with every row removed
\* whose upper-cased keyword is not in K.
C1_AsStated ==
  /\ SameTraversal
  /\ run.pc = "done" => run.df = FilteredByKeyword(ref.df)

\* a call reporting FIX alone that went into an included file and a block,
\* the comparison table holding more rows
C1_Witness ==
  /\ run.pc = "done" /\ ref.pc = "done"
  /\ analyzer.keywords = {kwFIX}
  /\ Len(run.handles) >= 2
  /\ Len(run.df) < Len(ref.df)
  /\ \E i \in DOMAIN run.df : run.df[i].path # <<>>

----------------------------------------------------------------------------
(* C2 *)

\* C2: the records are in depth-first pre-order with respect to INCLUDE: at
\* every moment they are the rows of the lines read so far, listed file by
\* file with each included file in full right after its INCLUDE line and
\* before the lines that follow it; when the call returns every line of the
\* tree has been read, and the table holds the records in that same order.
C2_DepthFirstPreorder ==
  /\ Positions(run.records) = ExpectedPositions(Processed)
  /\ run.pc \in {"return", "done"} => Upcoming.left = 1
  /\ run.pc = "done" =>
       /\ Len(run.df) = Len(run.records)
       /\ \A i \in DOMAIN run.df :
            run.df[i].file = PathStr(run.records[i].file) /\ run.df[i].line = run.records[i].line

\* a table with a record of C (included by B, included by A) between records
\* of B, themselves between records of A
C2_Witness ==
  /\ run.pc = "done"
  /\ \E h, i, j, k, l \in DOMAIN run.records :
       /\ h < i /\ i < j /\ j < k /\ k < l
       /\ run.records[h].file = pathA /\ run.records[i].file = pathB
       /\ run.records[j].file = pathC /\ run.records[k].file = pathB
       /\ run.records[l].file = pathA

----------------------------------------------------------------------------
(* C3 *)

\* C3: the line in hand is the line_number-th line of the current file, read
\* through the handle of that file under that file's encoding, and it is the
\* next line of the tree in depth-first order (so the count starts at 1 in
\* every file entered and goes on after the INCLUDE line when the included
\* file is exhausted); every record carries the number of its line.
C3_LineNumbering ==
  /\ (run.pc = "while_line" /\ run.line # <<>>) =>
       /\ run.handles[run.fp].p = run.p
       /\ run.handles[run.fp].pos = run.line_number
       /\ run.line_number \in 1..Len(fs[run.p].lines)
       /\ run.line = fs[run.p].lines[run.line_number] \o <<"\n">>
       /\ run.encoding = svx_encoding(fs, run.p).encoding
       /\ Len(Upcoming.ev) = run.nlines + 1
       /\ Upcoming.ev[run.nlines + 1].file = run.p
       /\ Upcoming.ev[run.nlines + 1].line = run.line_number
  /\ \A i \in DOMAIN run.records :
       LET r == run.records[i] IN
       /\ r.line \in 1..Len(fs[r.file].lines)
       /\ r.full = ExpandTabs(Strip(fs[r.file].lines[r.line]))
       /\ r.encoding = Upper(svx_encoding(fs, r.file).encoding)

\* the top level file resumed at its line 2 after an included file of three lines
C3_Witness ==
  /\ run.pc = "while_line" /\ run.line # <<>>
  /\ Len(run.stack) = 1 /\ run.line_number = 2 /\ run.nlines >= 4
  /\ \E h \in DOMAIN run.handles : run.handles[h].closed /\ run.handles[h].pos = 3

----------------------------------------------------------------------------
(* C4 *)

\* the rows of the table that record an INCLUDE statement
IncludeRows(df) == {i \in DOMAIN df : ~IsMatchRow(df[i]) /\ Upper(df[i].keyword) = kwINCLUDE}

\* C4 (as amended): when INCLUDE is in the reporting set and keyword_table
\* completes, the number of records whose keyword (upper-cased) is INCLUDE is
\* the number of files visited minus one, each file visited being the top
\* level file or the target of one INCLUDE line read.
C4_IncludeCount ==
  (run.pc = "done" /\ kwINCLUDE \in analyzer.keywords) =>
     /\ Cardinality(IncludeRows(run.df)) = Len(run.handles) - 1
     /\ Len(run.handles) = 1 + CountKw(Processed, kwINCLUDE)

\* C4 as stated: for any reporting set, when keyword_table completes, the
\* number of records whose keyword is INCLUDE is the number of files visited
\* minus one.
C4_AsStated ==
  run.pc = "done" => Cardinality(IncludeRows(run.df)) = Len(run.handles) - 1

\* a completed call that reported INCLUDE and visited three files or more
C4_Witness ==
  /\ run.pc = "done" /\ kwINCLUDE \in analyzer.keywords
  /\ Len(run.handles) >= 3

----------------------------------------------------------------------------
(* C5 *)

\* the context stack holds the names of the blocks that bracket matching
\* leaves open after the lines read, its depth is the number of BEGINs read
\* minus the number of ENDs read, and it is empty when the traversal has ended
NestedAsMatched ==
  LET read == Processed IN
  /\ run.svx_path = Names(BlocksAfter(read, run.nlines).open)
  /\ Len(run.svx_path) = CountKw(read, kwBEGIN) - CountKw(read, kwEND)
  /\ run.pc \in {"return", "done"} => run.svx_path = <<>>

\* C5: in a well-formed tree the context stack holds, after every line, the
\* names of the blocks that bracket matching leaves open there (so each
\* entry is popped by its matching END and by no other), its depth is the
\* number of BEGINs read minus the number of ENDs read, and it is empty when
\* the traversal ends. (Stated as: where this fails the tree is not well formed.)
C5_WellFormedNesting == NestedAsMatched \/ ~WellFormedTree

\* a well-formed tree read to its end with a record made two blocks deep
C5_Witness ==
  /\ WellFormedTree /\ run.pc = "done"
  /\ \E i \in DOMAIN run.records : Contains(run.records[i].path, Dot)

----------------------------------------------------------------------------
(* C6 *)

\* C6: the context path of the record of a line that is neither a BEGIN nor
\* an END is the dot-joined, lower-cased names of the blocks open at that
\* line, outermost first (the lines before it being well nested).
C6_ContextPath ==
  LET read == Processed
      rows == ExpectedRows(read, 1) IN
  \A i \in DOMAIN run.records :
     i \in DOMAIN rows =>
       LET k == rows[i].at
           b == BlocksAfter(read, k - 1) IN
       (read[k].kw \notin {kwBEGIN, kwEND} /\ b.ok) =>
          run.records[i].path = Join(Names(b.open), <<Dot>>)

\* a FIX recorded inside block b inside block a
C6_Witness ==
  \E i \in DOMAIN run.records :
     /\ Upper(run.records[i].keyword) = kwFIX
     /\ run.records[i].path = <<"a", ".", "b">>

----------------------------------------------------------------------------
(* C7 *)

\* C7 as stated: the record of a named BEGIN and the record of its matching
\* END both carry the context path of the enclosing scope, without the
\* block's own name.
C7_AsStated ==
  LET read == Processed
      rows == ExpectedRows(read, 1) IN
  \A i \in DOMAIN run.records :
     i \in DOMAIN rows =>
       LET k == rows[i].at
           b == BlocksAfter(read, k) IN
       (~rows[i].grep /\ b.ok /\ read[k].args # <<>>) =>
          /\ read[k].kw = kwBEGIN =>
               run.records[i].path = Join(Names(BlocksAfter(read, k - 1).open), <<Dot>>)
          /\ read[k].kw = kwEND =>
               run.records[i].path = Join(Names(b.open), <<Dot>>)

----------------------------------------------------------------------------
(* C8 *)

\* the line in hand is an END whose name is not that of the innermost open block
MismatchedEndInHand ==
  /\ run.pc = "while_line" /\ run.line # <<>>
  /\ run.svx_path # <<>>
  /\ LET e == EventOf(fs, run.p, run.line_number) IN
     /\ e.kw = kwEND /\ e.args # <<>>
     /\ Lower(e.args[1]) # run.svx_path[Len(run.svx_path)]

\* the same call, had the innermost block the name of the END in hand
AsIfMatched ==
  [run EXCEPT !.svx_path[Len(run.svx_path)] =
                 Lower(EventOf(fs, run.p, run.line_number).args[1])]

\* a walker without what it printed and without the context paths recorded
Comparable(w) ==
  [w EXCEPT !.out = <<>>,
            !.records = [i \in DOMAIN w.records |-> [w.records[i] EXCEPT !.path = <<>>]]]

\* C8: processing an END whose name differs from the innermost open block
\* pops that block all the same (the depth goes down by one), raises
\* nothing and goes on to the next line of the file, in the state (position,
\* frames, context stack, records but for the context path on the END's
\* own row) the call would be in had the names matched, so that all later
\* records are the same.
C8_MismatchedEndPops ==
  [][MismatchedEndInHand =>
       /\ run'.pc = "while_line" /\ run'.exc = ""
       /\ run'.svx_path = SubSeq(run.svx_path, 1, Len(run.svx_path) - 1)
       /\ run'.p = run.p /\ run'.line_number = run.line_number + 1
       /\ run'.nlines = run.nlines + 1
       /\ Comparable(run') = Comparable(KT_Line(AsIfMatched, fs, analyzer, args))
       /\ \A i \in DOMAIN run.records : run'.records[i] = run.records[i]
    ]_vars

\* a completed call that met a mismatched END and made a record afterwards
C8_Witness ==
  /\ run.pc = "done"
  /\ LET read == Processed
         rows == ExpectedRows(read, 1)
         anom == BlocksAfter(read, Len(read)).anomalies IN
     \E j \in DOMAIN anom :
        /\ anom[j].kind = "mismatch"
        /\ \E i \in DOMAIN rows : rows[i].at > anom[j].at /\ i \in DOMAIN run.records

----------------------------------------------------------------------------
(* C9 *)

\* the message printed for an anomaly
MessageOf(kind) ==
  CASE kind = "empty BEGIN" -> "empty BEGIN statement"
    [] kind = "empty END" -> "empty END statement"
    [] kind = "mismatch" -> "mismatched BEGIN and END statements"

\* the anomalies among the lines read so far
AnomaliesRead == LET read == Processed IN BlocksAfter(read, Len(read)).anomalies

\* C9 (as amended): when keyword_table is called with warn set, every
\* anomaly met (an END whose name differs from the popped BEGIN name, a
\* BEGIN without a name, an END without a name) produces one diagnostic at
\* the point it is met, naming its line number and file, in the order met;
\* with the default arguments (warn unset) nothing is printed.
C9_AnomaliesWarned ==
  LET read == Processed
      anom == BlocksAfter(read, Len(read)).anomalies IN
  /\ args.warn =>
       /\ Len(run.out) = Len(anom)
       /\ \A j \in DOMAIN anom :
            /\ j \in DOMAIN run.out
            /\ run.out[j].msg = MessageOf(anom[j].kind)
            /\ run.out[j].line_number = read[anom[j].at].line
            /\ run.out[j].p = read[anom[j].at].file
  /\ ~args.warn => run.out = <<>>

\* C9 as stated: every anomaly met produces a diagnostic, for every
\* configuration of keyword_table including its default arguments.
C9_AsStated == Len(run.out) = Len(AnomaliesRead)

\* a call with warn set that printed a mismatch and then an empty END
C9_Witness ==
  /\ args.warn
  /\ \E j \in DOMAIN run.out :
       /\ j + 1 \in DOMAIN run.out
       /\ run.out[j].msg = "mismatched BEGIN and END statements"
       /\ run.out[j + 1].msg = "empty END statement"

----------------------------------------------------------------------------
(* C10 *)

\* the last line read is an INCLUDE of a file that does not exist or that no
\* candidate encoding decodes
FailingInclude ==
  /\ run.nlines > 0
  /\ LET read == Processed
         e    == read[Len(read)] IN
     /\ e.kw = kwINCLUDE /\ e.target.exc = ""
     /\ svx_encoding(fs, e.target.p).exc # ""

\* C10: when the INCLUDE of a missing or undecodable file is read,
\* keyword_table raises there and then; a call that raised returns no table
\* whatever records it had accumulated, and the process ends with a
\* non-zero exit status; a zero exit status follows a returned table only.
C10_FailingFileAborts ==
  /\ FailingInclude =>
       /\ run.pc = "raised"
       /\ run.exc = svx_encoding(fs, run.p).exc
       /\ run.p = Processed[run.nlines].target.p
  /\ run.pc = "raised" =>
       /\ run.df = NoTable
       /\ exit_status \in {-1, 1}
  /\ exit_status = 0 => run.pc = "done"

\* the INCLUDE of a missing file met in an included file, after records were
\* made, the process ended
C10_Witness ==
  /\ FailingInclude /\ run.exc = "FileNotFoundError"
  /\ Len(run.stack) >= 3 /\ Len(run.records) >= 2
  /\ exit_status = 1

----------------------------------------------------------------------------
(* C11 *)

\* the tree is finite and no file includes itself: its listing ends
FiniteTree == Whole.left > 0

\* every INCLUDE of the tree names a file that exists
AllIncludedExist ==
  LET whole == Whole.ev IN
  \A k \in DOMAIN whole :
     whole[k].kw = kwINCLUDE =>
        whole[k].target.exc = "" /\ whole[k].target.p \in DOMAIN fs

\* C11 as stated, as far as a state can refute it: in a finite tree without
\* cycles whose included files all exist the call never stops short of its
\* terminal state (it raises nothing); until then the sentinel is the bottom
\* of the frame stack and the only sentinel in it; it is popped last, when
\* every line of the tree has been read.
C11_AsStated ==
  (FiniteTree /\ AllIncludedExist) =>
     /\ run.pc # "raised"
     /\ run.pc = "while_line" =>
          /\ run.stack # <<>> /\ run.stack[1] = Sentinel
          /\ \A i \in 2..Len(run.stack) : run.stack[i].fp # 0
     /\ run.pc \in {"return", "done"} => run.stack = <<>> /\ Upcoming.left = 1

----------------------------------------------------------------------------
(* C12 *)

\* the file objects of the call that are open
OpenHandles == {h \in DOMAIN run.handles : ~run.handles[h].closed}

\* the file objects held by the non-sentinel frames of the stack
FrameHandles == {run.stack[i].fp : i \in 2..Len(run.stack)}

\* C12: while the call runs the open files are exactly the current file and
\* the file of each non-sentinel frame, one apiece, each frame holding the
\* handle of its own path; a file that is no longer open has been read to
\* its end (so it was closed before its parent's next line was read); when
\* the call completes none of its files is open.
C12_OpenFiles ==
  /\ run.pc \in {"while_line", "raised"} =>
       OpenHandles = {run.fp} \cup FrameHandles
  /\ run.pc = "while_line" =>
       /\ Cardinality(OpenHandles) = Len(run.stack)
       /\ run.handles[run.fp].p = run.p
       /\ \A i \in 2..Len(run.stack) : run.handles[run.stack[i].fp].p = run.stack[i].p
  /\ \A h \in DOMAIN run.handles :
       run.handles[h].closed => run.handles[h].pos = Len(fs[run.handles[h].p].lines)
  /\ run.pc \in {"return", "done"} => OpenHandles = {}

\* back in B.svx with a line in hand after C.svx was read and closed, A.svx
\* and B.svx open
C12_Witness ==
  /\ run.pc = "while_line" /\ run.line # <<>>
  /\ run.p = pathB /\ Len(run.stack) = 2
  /\ Cardinality(OpenHandles) = 2
  /\ \E h \in DOMAIN run.handles : run.handles[h].closed /\ run.handles[h].p = pathC

----------------------------------------------------------------------------
(* C13 *)

\* the file entered from frame i of the stack: the path of the next frame,
\* or the current path
EnteredFrom(i) == IF i < Len(run.stack) THEN run.stack[i + 1].p ELSE run.p

\* the file name an INCLUDE line gives, as path components
IncludedName(p, i) == PathParts(IncludeFilename(EventOf(fs, p, i).args))

\* C13: for every frame on the stack, the file entered from it lies in the
\* directory of the including file (the frame's own path) extended by the
\* directories the INCLUDE argument names, and has the argument's file name
\* with the suffix .svx, at every depth.
C13_IncludeRelativeToParent ==
  run.pc \in {"while_line", "raised"} =>
     \A i \in 2..Len(run.stack) :
        LET including == run.stack[i].p
            name      == IncludedName(including, run.stack[i].line_number)
            entered   == EnteredFrom(i) IN
        /\ name # <<>>
        /\ Parent(entered) = Parent(including) \o SubSeq(name, 1, Len(name) - 1)
        /\ <<Name(entered)>> = with_suffix(<<name[Len(name)]>>).p

\* sub/C.svx entered from sub/B.svx while a C.svx lies beside the top level file
C13_Witness ==
  /\ run.pc = "while_line" /\ run.line # <<>>
  /\ run.p = pathSubC /\ Len(run.stack) = 3
  /\ run.stack[3].p = pathSubB
  /\ pathC \in DOMAIN fs /\ Parent(pathC) = Parent(analyzer.top_level)

----------------------------------------------------------------------------
(* C14 *)

\* the keyword column of row i for a value of the flag: the word after the
\* keyword character as written, or upper-cased; the matched text for the
\* row of a pattern match
KeywordColumn(events, rows, i, flag, old) ==
  IF rows[i].grep THEN old
  ELSE IF flag THEN events[rows[i].at].token ELSE Upper(events[rows[i].at].token)

\* a list of records with the keyword column rewritten for a value of the flag
RecasedRecords(records, events, rows, flag) ==
  [i \in DOMAIN records |->
     IF i \in DOMAIN rows
     THEN [records[i] EXCEPT !.keyword = KeywordColumn(events, rows, i, flag, @)]
     ELSE records[i]]

\* a walker with the keyword column of its records and of its table
\* rewritten for a value of the flag
Recased(w, flag) ==
  LET events == Preorder(fs, analyzer.top_level, 1, w.nlines).ev
      rows   == ExpectedRows(events, 1) IN
  [w EXCEPT !.records = RecasedRecords(@, events, rows, flag),
            !.df = IF w.pc = "done" THEN RecasedRecords(@, events, rows, flag) ELSE @]

----------------------------------------------------------------------------
(* C15 *)

\* no line anywhere in the tree matches the pattern
NoMatchInTree == \A k \in DOMAIN Whole.ev : ~Whole.ev[k].match

GrepMode == analyzer.pattern # None

\* C15 as stated: the exit status is non-zero when the program runs in grep
\* mode and no line anywhere in the tree matches the pattern, and is zero in
\* every other run.
C15_AsStated ==
  exit_status # -1 => (exit_status # 0 <=> (GrepMode /\ NoMatchInTree))

\* C15: a run whose traversal completes ends with a non-zero status exactly
\* when it is in grep mode and no line anywhere in the tree matches the
\* pattern; a run whose traversal is aborted by an exception ends with a
\* non-zero status in either mode, whether or not a line matches.
C15_ExitStatus ==
  exit_status # -1 =>
     /\ run.pc = "done" => (exit_status # 0 <=> (GrepMode /\ NoMatchInTree))
     /\ run.pc = "raised" => exit_status # 0

\* a grep run over a tree of two files without a match has ended with
\* status 1
C15_Witness ==
  /\ GrepMode /\ run.pc = "done" /\ exit_status = 1
  /\ \E k \in DOMAIN Whole.ev : Whole.ev[k].file = pathB
  /\ Len(Whole.ev) >= 4

----------------------------------------------------------------------------
(* C16 *)

\* the order the claim fixes
ProbeOrder == <<encUTF8, encLATIN1>>

Decoding(p) == {i \in DOMAIN ProbeOrder : ProbeOrder[i] \in fs[p].decodes}

\* encoding is the first of the order under which the file p decodes
IsFirstDecoding(encoding, p) ==
  \E i \in Decoding(p) :
     /\ encoding = ProbeOrder[i]
     /\ \A j \in Decoding(p) : i <= j

\* C16: the encoding found for every file the walker has opened (the
\* current file, the including files on the stack, and, in upper case, the
\* file of every record) is the first of utf-8, iso-8859-1 under which the file decodes,
\* hence never one under which it fails to decode; and the call is ended by
\* an encoding error exactly when the file being opened exists and no
\* candidate decodes it (which no file does, since ISO-8859-1 decodes
\* every byte string).
C16_EncodingProber ==
  /\ run.pc = "while_line" =>
       /\ IsFirstDecoding(run.encoding, run.p)
       /\ \A i \in 2..Len(run.stack) :
            IsFirstDecoding(run.stack[i].encoding, run.stack[i].p)
  /\ \A i \in DOMAIN run.records :
       \E k \in DOMAIN ProbeOrder :
          /\ IsFirstDecoding(ProbeOrder[k], run.records[i].file)
          /\ run.records[i].encoding = Upper(ProbeOrder[k])
  /\ (run.pc = "raised" /\ run.exc \in {"UnicodeDecodeError", "TypeError"})
       <=> (run.pc = "raised" /\ run.p \in DOMAIN fs /\ Decoding(run.p) = {})

\* inside a file that only ISO-8859-1 decodes, included from a UTF-8 file
\* that has a record already, with a record of its own
C16_Witness ==
  /\ run.pc = "while_line" /\ Len(run.stack) = 2
  /\ run.encoding = encLATIN1 /\ encUTF8 \notin fs[run.p].decodes
  /\ run.stack[2].encoding = encUTF8
  /\ \E i, j \in DOMAIN run.records :
       /\ run.records[i].encoding = Upper(encUTF8)
       /\ run.records[j].encoding = Upper(encLATIN1)

----------------------------------------------------------------------------
(* C17 *)

IsDecimal(s) == s # <<>> /\ \A i \in DOMAIN s : \E d \in DOMAIN DecimalDigits : DecimalDigits[d] = s[i]

\* int(s) of a string of decimal digits
RECURSIVE StrToInt(_)
StrToInt(s) ==
  IF s = <<>> THEN 0
  ELSE LET last == s[Len(s)]
           d    == CHOOSE k \in DOMAIN DecimalDigits : DecimalDigits[k] = last IN
       StrToInt(SubSeq(s, 1, Len(s) - 1)) * 10 + (d - 1)

\* the index of the first colon of s from position k on, 0 if there is none
RECURSIVE FirstColon(_, _)
FirstColon(s, k) ==
  IF k > Len(s) THEN 0
  ELSE IF s[k] = Colon THEN k
  ELSE FirstColon(s, k + 1)

\* a rendered line split at its <path>:<line>: prefix: the path is what
\* precedes the first colon, the line number the decimal number between the
\* first colon and the second; ok tells whether the line has such a prefix
ParsePrefix(s) ==
  LET i == FirstColon(s, 1)
      j == IF i = 0 THEN 0 ELSE FirstColon(s, i + 1)
      number == IF j = 0 THEN <<>> ELSE SubSeq(s, i + 1, j - 1) IN
  IF IsDecimal(number)
  THEN [ok |-> TRUE, path |-> SubSeq(s, 1, i - 1), line |-> StrToInt(number)]
  ELSE [ok |-> FALSE, path |-> <<>>, line |-> 0]

\* the prefix of the i-th printed line is the file path and the line number
\* of the i-th row of the table
RoundTrip(i) ==
  LET parsed == ParsePrefix(printed[i]) IN
  /\ parsed.ok
  /\ parsed.path = run.df[i].file
  /\ parsed.line = run.df[i].line

\* C17 as stated: for every record, rendering it with stringify (color off,
\* with or without the context-path column) and splitting the rendered line
\* at the <path>:<line>: prefix recovers the record's file path and line
\* number, for every file path the walker can produce.
C17_AsStated ==
  (exit_status # -1 /\ run.pc = "done") =>
     /\ Len(printed) = Len(run.df)
     /\ \A i \in DOMAIN printed : RoundTrip(i)

\* C17: the table printed with or without the context-path column has one
\* line per record, and splitting the line at its <path>:<line>: prefix
\* recovers the record's file path and line number for every record whose
\* file path holds no colon.
C17_RoundTrip ==
  (exit_status # -1 /\ run.pc = "done") =>
     /\ Len(printed) = Len(run.df)
     /\ \A i \in DOMAIN printed :
          ~Contains(run.df[i].file, Colon) => RoundTrip(i)

\* a table printed with the context-path column, with a record of a file in
\* a subdirectory under a non-empty context path and a record on line 11
C17_Witness ==
  /\ exit_status # -1 /\ run.pc = "done"
  /\ printed = stringify(run.df, TRUE)
  /\ \E i, j \in DOMAIN run.df :
       /\ run.df[i].file = PathStr(pathSubB) /\ run.df[i].path # <<>>
       /\ run.df[j].line = 11
       /\ RoundTrip(i) /\ RoundTrip(j)

----------------------------------------------------------------------------
(* C18 *)

\* the line in hand is an END with a name, and no BEGIN block is open
EndWithoutBeginInHand ==
  /\ run.pc = "while_line" /\ run.line # <<>>
  /\ run.svx_path = <<>>
  /\ LET e == EventOf(fs, run.p, run.line_number) IN
     e.kw = kwEND /\ e.args # <<>>

\* C18 as stated: an END with a non-empty argument processed while the
\* context stack is empty is a non-fatal anomaly: keyword_table does not
\* abort, the context stack stays empty, the END is reported when END is in
\* the reporting set, and the call goes on to the next line of the file.
C18_AsStated ==
  [][EndWithoutBeginInHand =>
       /\ run'.pc = "while_line" /\ run'.exc = ""
       /\ run'.svx_path = <<>>
       /\ run'.p = run.p /\ run'.line_number = run.line_number + 1
       /\ Len(run'.records) >= Len(run.records)
    ]_vars

----------------------------------------------------------------------------
(* C19 *)

\* the j-th diagnostic, of a mismatch, names the BEGIN of event k
NamesBegin(j, begin) ==
  /\ run.out[j].begin_line_number = begin.line
  /\ run.out[j].begin_line = begin.text
  /\ run.out[j].begin_p = begin.file

\* C19 as stated: whenever a mismatch diagnostic is emitted for an END, the
\* BEGIN line number, BEGIN line text and file it names are those of the
\* BEGIN directive that pushed the context entry this END popped, also when
\* other BEGIN/END pairs were opened and closed in between and when the
\* BEGIN lies in a different file than the END.
C19_AsStated ==
  LET read == Processed
      anom == BlocksAfter(read, Len(read)).anomalies IN
  args.warn =>
     \A j \in DOMAIN anom :
        (j \in DOMAIN run.out /\ anom[j].kind = "mismatch") =>
           NamesBegin(j, read[anom[j].begin])

----------------------------------------------------------------------------
(* C20 *)

\* what extract_keyword_arguments yields for the line in hand, as
\* keyword_table calls it
ExtractedInHand ==
  extract_keyword_arguments(Clean(Strip(run.line)), Recognized(analyzer), keyword_char)

\* C20 as stated: extract_keyword_arguments is total on cleaned lines: for
\* every cleaned line the walker passes to it, including the keyword
\* character alone and the keyword character followed only by a comment, it
\* returns a recognized directive with its arguments or (None, []), and
\* never fails; and so no line ends the call with its exception.
C20_AsStated ==
  /\ (run.pc = "while_line" /\ run.line # <<>>) =>
        LET r == ExtractedInHand IN
        /\ r.exc = ""
        /\ \/ r.keyword = None /\ r.arguments = <<>>
           \/ r.keyword # None /\ Upper(r.keyword) \in Recognized(analyzer)
  /\ run.pc = "raised" => run.exc # "IndexError"

----------------------------------------------------------------------------
(* C21 *)

\* the existing files the INCLUDE lines of file p name
IncludedBy(p) ==
  {EventOf(fs, p, i).target.p : i \in {j \in DOMAIN fs[p].lines :
      /\ EventOf(fs, p, j).kw = kwINCLUDE
      /\ EventOf(fs, p, j).target.exc = ""
      /\ EventOf(fs, p, j).target.p \in DOMAIN fs}}

\* the files reached from the files of S by up to k INCLUDE lines
RECURSIVE ReachedFrom(_, _)
ReachedFrom(S, k) ==
  IF k = 0 THEN S
  ELSE ReachedFrom(S \cup UNION {IncludedBy(p) : p \in S}, k - 1)

\* a file of the tree includes itself, directly or transitively
CyclicTree ==
  LET n == Cardinality(DOMAIN fs) IN
  \E p \in ReachedFrom({analyzer.top_level}, n) :
     p \in ReachedFrom(IncludedBy(p), n)

\* the line in hand is an INCLUDE of an existing file
IncludeInHand ==
  /\ run.pc = "while_line" /\ run.line # <<>>
  /\ LET e == EventOf(fs, run.p, run.line_number) IN
     e.kw = kwINCLUDE /\ e.target.exc = "" /\ e.target.p \in DOMAIN fs

----------------------------------------------------------------------------
(* C22 *)

IsPrefixOf(s, t) == Len(s) <= Len(t) /\ SubSeq(t, 1, Len(s)) = s

\* the number, among the lines read, of the INCLUDE that the innermost frame
\* is waiting in (0 in the top level file)
IncludeOfFrame(read) ==
  IF Len(run.stack) < 2 THEN 0
  ELSE LET frame == run.stack[Len(run.stack)]
           K == {k \in DOMAIN read :
                   read[k].file = frame.p /\ read[k].line = frame.line_number} IN
       IF K = {} THEN 0 ELSE CHOOSE k \in K : \A j \in K : j <= k

\* the names of the BEGIN blocks open after the first n of the lines read
OpenNames(read, n) == Names(BlocksAfter(read, n).open)

\* since line k no END has closed a block that was open at line k
NoneClosedSince(read, k) ==
  \A j \in k..Len(read) : IsPrefixOf(OpenNames(read, k), OpenNames(read, j))

\* the records step appends, with the context path they ought to carry
AppendedCarry(names) ==
  \A i \in (Len(run.records) + 1)..Len(run'.records) :
     run'.records[i].path = Join(names, <<Dot>>)

\* C22 as stated: entering an included file and returning from it both
\* leave the context stack unchanged; records from an included file carry
\* the including file's open BEGIN names as a prefix of their context path.
C22_AsStated ==
  [][LET read == Processed
         k    == IncludeOfFrame(read) IN
     /\ IncludeInHand => run'.svx_path = run.svx_path
     /\ (run.pc = "while_line" /\ run.line = <<>>) => run'.svx_path = run.svx_path
     /\ (run.pc = "while_line" /\ run.line # <<>> /\ k > 0) =>
           /\ AppendedCarry(run.svx_path)
           /\ Len(run'.records) > Len(run.records) =>
                 IsPrefixOf(OpenNames(read, k), run.svx_path)
    ]_vars

\* C22: processing an INCLUDE and returning from an included file both
\* leave the context stack as it is, so a BEGIN left unclosed inside an
\* included file stays for the parent's later lines; every record made in
\* an included file carries the context stack in force at its line, of
\* which the BEGIN names open at the INCLUDE are a prefix as long as no END
\* read since the INCLUDE has closed one of them.
C22_ContextAcrossFiles ==
  [][LET read == Processed
         k    == IncludeOfFrame(read) IN
     /\ IncludeInHand => run'.svx_path = run.svx_path
     /\ (run.pc = "while_line" /\ run.line = <<>>) => run'.svx_path = run.svx_path
     /\ (run.pc = "while_line" /\ run.line # <<>> /\ k > 0) =>
           /\ AppendedCarry(run.svx_path)
           /\ run.svx_path = OpenNames(read, Len(read))
           /\ (Len(run'.records) > Len(run.records) /\ NoneClosedSince(read, k)) =>
                 IsPrefixOf(OpenNames(read, k), run.svx_path)
    ]_vars

\* back in A.svx after B.svx, which was entered inside block a and left its
\* own block b open: a record of B.svx under a, a later record of A.svx
\* under a.b
C22_Witness ==
  /\ run.pc = "while_line" /\ Len(run.stack) = 1 /\ run.p = pathA
  /\ run.svx_path = << <<"a">>, <<"b">> >>
  /\ \E i, j \in DOMAIN run.records :
       /\ i < j
       /\ run.records[i].file = pathB /\ run.records[i].path = <<"a">>
       /\ run.records[j].file = pathA /\ run.records[j].path = <<"a", Dot, "b">>

----------------------------------------------------------------------------
(* C23 *)

\* a BEGIN or an END without a name
Anonymous(e) == e.kw \in {kwBEGIN, kwEND} /\ e.args = <<>>

NotAnonymous(e) == ~Anonymous(e)

\* the line in hand is a BEGIN or an END without a name
AnonymousInHand ==
  /\ run.pc = "while_line" /\ run.line # <<>>
  /\ Anonymous(EventOf(fs, run.p, run.line_number))

\* the context path of every record of w is the one it has in the tree
\* without its anonymous BEGIN and END lines
PathsIgnoreAnonymous(w) ==
  LET read == Preorder(fs, analyzer.top_level, 1, w.nlines).ev
      rows == ExpectedRows(read, 1) IN
  \A i \in DOMAIN w.records :
     i \in DOMAIN rows =>
        LET before == SelectSeq(SubSeq(read, 1, rows[i].at - 1), NotAnonymous) IN
        w.records[i].path = Join(OpenNames(before, Len(before)), <<Dot>>)

\* C23: a BEGIN and an END with an empty argument list each leave the
\* context stack, the frame stack and the current file unchanged and the
\* call goes on to the next line; they are recorded exactly when BEGIN or
\* END is in the reporting set; and the context path of every record is the
\* one it has in the tree without the anonymous lines.
C23_AnonymousBeginEnd ==
  [][/\ AnonymousInHand =>
          LET e == EventOf(fs, run.p, run.line_number)
              n == Len(run.records) + (IF e.match THEN 1 ELSE 0) IN
          /\ run'.pc = "while_line" /\ run'.exc = ""
          /\ run'.svx_path = run.svx_path
          /\ run'.stack = run.stack
          /\ run'.p = run.p /\ run'.fp = run.fp
          /\ run'.line_number = run.line_number + 1
          /\ IF e.kw \in analyzer.keywords
             THEN /\ Len(run'.records) = n + 1
                  /\ run'.records[n + 1].file = run.p
                  /\ run'.records[n + 1].line = run.line_number
                  /\ Upper(run'.records[n + 1].keyword) = e.kw
                  /\ run'.records[n + 1].argument = <<>>
                  /\ run'.records[n + 1].path = Join(run.svx_path, <<Dot>>)
             ELSE Len(run'.records) = n
     /\ PathsIgnoreAnonymous(run')
    ]_vars

\* inside block a, B.svx holds an anonymous pair around a FIX: all three
\* are recorded under a, and the END of a then closes it
C23_Witness ==
  /\ run.pc = "while_line" /\ run.p = pathA /\ run.svx_path = <<>>
  /\ \E i \in DOMAIN run.records :
       /\ i + 2 \in DOMAIN run.records
       /\ Upper(run.records[i].keyword) = kwBEGIN /\ run.records[i].argument = <<>>
       /\ Upper(run.records[i + 1].keyword) = kwFIX
       /\ Upper(run.records[i + 2].keyword) = kwEND /\ run.records[i + 2].argument = <<>>
       /\ \A j \in i..(i + 2) : run.records[j].path = <<"a">> /\ run.records[j].file = pathB
  /\ Upper(run.records[Len(run.records)].keyword) = kwEND
  /\ run.records[Len(run.records)].argument = <<"a">>

----------------------------------------------------------------------------
(* C24 *)

\* the part of a line before its first comment marker (the whole line if it
\* has none)
RECURSIVE BeforeComment(_)
BeforeComment(l) ==
  IF l = <<>> \/ Head(l) = comment_char THEN <<>>
  ELSE <<Head(l)>> \o BeforeComment(Tail(l))

\* the call with, in hand, the line cut at its first comment marker
CommentCut(w) ==
  [w EXCEPT !.line = IF Contains(@, comment_char) THEN BeforeComment(@) \o <<"\n">> ELSE @]

\* a diagnostic without the line texts it quotes
WithoutText(o) ==
  IF o.msg = "mismatched BEGIN and END statements"
  THEN [o EXCEPT !.line = <<>>, !.begin_line = <<>>]
  ELSE o

\* a walker without the texts of whole lines it keeps (the full column, the
\* BEGIN line kept for diagnostics, the lines quoted in diagnostics) and, in
\* grep mode, without its match records
Classified(w) ==
  [w EXCEPT !.records = IF GrepMode THEN <<>>
                        ELSE [i \in DOMAIN @ |-> [@[i] EXCEPT !.full = <<>>]],
            !.begin_line = <<>>,
            !.out = [j \in DOMAIN @ |-> WithoutText(@[j])]]

\* the line in hand has a comment marker
CommentInHand ==
  run.pc = "while_line" /\ run.line # <<>> /\ Contains(run.line, comment_char)

\* the line in hand has nothing but white space before its comment marker
CommentOnlyInHand ==
  CommentInHand /\ Strip(BeforeComment(run.line)) = <<>>

\* C24 as stated: a directive that appears only after the comment marker
\* produces no record and changes neither the context stack nor the frame
\* stack.
C24_AsStated ==
  [][CommentOnlyInHand =>
       /\ run'.records = run.records
       /\ run'.svx_path = run.svx_path
       /\ run'.stack = run.stack
    ]_vars

\* C24: classification uses only the text before the first comment marker:
\* processing a line leads to the state that processing the line cut at the
\* marker leads to, but for the texts of whole lines and the grep mode's
\* match records (so no text after the marker is in an argument list or an
\* INCLUDE file name); a line with a directive only after the marker makes
\* no directive record, in grep mode one match record exactly when the
\* pattern is found in the line, and changes neither the context stack nor
\* the frame stack.
C24_CommentsIgnored ==
  [][/\ CommentInHand =>
          Classified(run') = Classified(KT_Line(CommentCut(run), fs, analyzer, args))
     /\ CommentOnlyInHand =>
          /\ run'.pc = "while_line"
          /\ run'.svx_path = run.svx_path
          /\ run'.stack = run.stack /\ run'.p = run.p
          /\ IF GrepMode /\ Search(analyzer.pattern, Strip(run.line)) # 0
             THEN /\ Len(run'.records) = Len(run.records) + 1
                  /\ IsMatchRow(run'.records[Len(run'.records)])
                  /\ SubSeq(run'.records, 1, Len(run.records)) = run.records
             ELSE run'.records = run.records
    ]_vars

\* '*include B ; C' has led into B.svx, after '; *include B' and
\* ';*begin x' were passed with nothing recorded and no block opened
C24_Witness ==
  /\ ~GrepMode
  /\ fs[pathA].lines = <<lnCommentInclude, lnCommentBegin, lnIncludeBComment>>
  /\ run.pc = "while_line" /\ run.p = pathB /\ Len(run.stack) = 2
  /\ Len(run.handles) = 2
  /\ run.svx_path = <<>>
  /\ Len(run.records) = 1 /\ run.records[1].argument = <<"B">>

----------------------------------------------------------------------------
(* C25 *)

\* the numbers, in order, of the events from k on whose line the pattern is
\* found in
RECURSIVE MatchedAt(_, _)
MatchedAt(events, k) ==
  IF k > Len(events) THEN <<>>
  ELSE (IF events[k].match THEN <<k>> ELSE <<>>) \o MatchedAt(events, k + 1)

\* C25: in grep mode as the wrapper sets it up, the records are, in
\* traversal order, exactly one per line read whose stripped text the
\* pattern is found in, each with the file, the line number, the text and
\* the context path in force before the line's own BEGIN or END is
\* applied, and none is a directive record; INCLUDE, BEGIN and END lines
\* still drive the descent and the context stack (the line in hand is the
\* next line of the tree read depth first, the context stack is the one the
\* lines read leave); and the call returns the table when the whole tree is
\* read.
C25_GrepMode ==
  LET read == Processed
      hits == MatchedAt(read, 1)
      next == Upcoming IN
  (GrepMode /\ analyzer.keywords = {}) =>
     /\ Len(run.records) = Len(hits)
     /\ \A i \in DOMAIN hits :
          i \in DOMAIN run.records =>
             LET e == read[hits[i]]
                 r == run.records[i] IN
             /\ r.file = e.file /\ r.line = e.line
             /\ r.full = ExpandTabs(e.text)
             /\ r.keyword = analyzer.pattern /\ r.argument = <<>>
             /\ r.path = Join(OpenNames(read, hits[i] - 1), <<Dot>>)
     /\ run.pc # "raised" => run.svx_path = OpenNames(read, Len(read))
     /\ (run.pc = "while_line" /\ run.line # <<>>) =>
          /\ Len(next.ev) = Len(read) + 1
          /\ next.ev[Len(next.ev)].file = run.p
          /\ next.ev[Len(next.ev)].line = run.line_number
     /\ run.pc = "done" =>
          /\ Len(next.ev) = Len(read)
          /\ run.df = DataFrame(run.records)

\* a grep for 'e' over a tree of two files: the table holds the BEGIN of
\* block a with the empty context path, the INCLUDE and a line of B.svx
\* under a, and the END of a under a
C25_Witness ==
  /\ GrepMode /\ run.pc = "done" /\ Len(run.df) >= 4
  /\ \E i, j, k, l \in DOMAIN run.records :
       /\ i < j /\ j < k /\ k < l
       /\ run.records[i].full = lnBeginA /\ run.records[i].path = <<>>
       /\ run.records[j].full = lnIncludeB /\ run.records[j].path = <<"a">>
       /\ run.records[k].file = pathB /\ run.records[k].path = <<"a">>
       /\ run.records[l].full = lnEndA /\ run.records[l].path = <<"a">>
            /\ run.records[l].file = pathA

----------------------------------------------------------------------------
(* C26 *)

EndsWith(s, t) == Len(t) <= Len(s) /\ SubSeq(s, Len(s) - Len(t) + 1, Len(s)) = t

\* a name with the canonical suffix appended unless it ends in it
Appended(name) == IF EndsWith(name, SvxSuffix) THEN name ELSE name \o SvxSuffix

\* the line in hand is an INCLUDE that names a file
IncludeNamedInHand ==
  /\ run.pc = "while_line" /\ run.line # <<>>
  /\ EventOf(fs, run.p, run.line_number).kw = kwINCLUDE
  /\ IncludedName(run.p, run.line_number) # <<>>

\* C26 as stated: suffix normalization only ever appends: the file an
\* INCLUDE turns to has the name of its argument, unchanged when that ends
\* in .svx and with .svx appended otherwise, no character of it removed.
C26_AsStated ==
  [][IncludeNamedInHand =>
       LET name == IncludedName(run.p, run.line_number) IN
       Name(run'.p) = Appended(name[Len(name)])
    ]_vars

====
